---- MODULE Spec2Model ----
(***************************************************************************)
(* Model of app/components/ObsceneGestureCensor.tsx.                       *)
(*                                                                         *)
(* Two specifications share this module:                                   *)
(*   SpecClassify  the pure helpers (detectGesture, getHandBoundingBox)    *)
(*                 applied to landmark sets drawn from bounded families;   *)
(*   Spec          the first useEffect: init(), the processFrame loop,     *)
(*                 the hands.onResults callback, handleResize and the      *)
(*                 effect cleanups.                                        *)
(*                                                                         *)
(* Normalized coordinates are integers in thousandths (1.0 is One), and    *)
(* distances are compared through their squares, so every comparison of    *)
(* the source is decided in exact arithmetic.                              *)
(***************************************************************************)
EXTENDS Integers, Sequences, FiniteSets, TLC

VARIABLES
    \* ---- SpecClassify: the input of the pure helpers and their outputs
    landmarks,      \* the 21 landmarks handed to the helpers
    width, height,  \* frame size handed to getHandBoundingBox
    gesture,        \* value returned by detectGesture
    box,            \* value returned by getHandBoundingBox
    done,           \* which helpers have been applied: subset of {"gesture","box"}
    \* ---- Spec: the component and its first effect
    initPc,         \* position of the async function init
    isMounted,      \* let isMounted (line 143)
    hands,          \* let hands (line 141): "null", "open" or "closed"
    stream,         \* camera stream: "none", "live" or "stopped"
    srcObject,      \* videoElement.srcObject holds the stream
    listening,      \* handleResize is registered on the video element
    error,          \* React state error
    loading,        \* React state loading
    detectedGesture,\* React state detectedGesture
    blurred,        \* the canvas shows a blurred region
    blurBox,        \* the blurred region (ZeroBox when none)
    canvasSize,     \* <<canvasElement.width, canvasElement.height>>
    rafScheduled,   \* a requestAnimationFrame(processFrame) callback is pending
    sendsInFlight,  \* hands.send calls whose promise has not settled
    callbacksDue,   \* in-flight sends whose onResults callback has not run
    lastResults,    \* results of the last onResults callback that was processed
    prevResults,    \* results of the processed callback before that one
    lastEvent       \* name of the handler that ran last

classifyVars == <<landmarks, width, height, gesture, box, done>>

effectVars == <<initPc, isMounted, hands, stream, srcObject, listening, error,
                loading, detectedGesture, blurred, blurBox, canvasSize,
                rafScheduled, sendsInFlight, callbacksDue, lastResults,
                prevResults, lastEvent>>

vars == <<landmarks, width, height, gesture, box, done,
          initPc, isMounted, hands, stream, srcObject, listening, error,
          loading, detectedGesture, blurred, blurBox, canvasSize,
          rafScheduled, sendsInFlight, callbacksDue, lastResults,
          prevResults, lastEvent>>

----------------------------------------------------------------------------
(* Units and thresholds of the source, in thousandths.                     *)

One == 1000

EXTENSION_THRESHOLD == 20

ThumbOpenDistance == 150

PinchDistanceLimit == 80

padding == 50

\* the factor 1.6 of isFingerOpen, as the fraction RatioNum / RatioDen
RatioNum == 8

RatioDen == 5

NoGesture == "null"

Pt(px, py) == [x |-> px, y |-> py]

----------------------------------------------------------------------------
(* Geometry helpers.                                                       *)

\* tip.y < pip.y - EXTENSION_THRESHOLD
isFingerExtended(tip, pip) == tip.y < pip.y - EXTENSION_THRESHOLD

\* tip.y > ip.y + EXTENSION_THRESHOLD
isThumbDown(tip, ip) == tip.y > ip.y + EXTENSION_THRESHOLD

\* Math.hypot(p1.x - p2.x, p1.y - p2.y), kept as its square
getDistanceSq(p1, p2) ==
    (p1.x - p2.x) * (p1.x - p2.x) + (p1.y - p2.y) * (p1.y - p2.y)

\* distTipMCP >= distPIPMCP * 1.6 : the boundary counted as open
isFingerOpenInclusive(tip, pip, mcp) ==
    RatioDen * RatioDen * getDistanceSq(tip, mcp)
        >= RatioNum * RatioNum * getDistanceSq(pip, mcp)

\* distTipMCP > distPIPMCP * 1.6
isFingerOpen(tip, pip, mcp) ==
    RatioDen * RatioDen * getDistanceSq(tip, mcp)
        > RatioNum * RatioNum * getDistanceSq(pip, mcp)

----------------------------------------------------------------------------
(* detectGesture: the locals of lines 44-76, then the rules in order.      *)

indexOpen(lm)  == isFingerOpen(lm[8],  lm[6],  lm[5])
middleOpen(lm) == isFingerOpen(lm[12], lm[10], lm[9])
ringOpen(lm)   == isFingerOpen(lm[16], lm[14], lm[13])
pinkyOpen(lm)  == isFingerOpen(lm[20], lm[18], lm[17])

\* getDistance(thumbTip, indexMCP) > 0.15
thumbOpen(lm) ==
    getDistanceSq(lm[4], lm[5]) > ThumbOpenDistance * ThumbOpenDistance

\* const isThumbUp = thumbTip.y < thumbIP.y
isThumbUp(lm) == lm[4].y < lm[3].y

\* the outer helper used in place of the local comparison
isThumbDownViaHelper(lm) == isThumbDown(lm[4], lm[3])

\* const isThumbDown = thumbTip.y > thumbIP.y (the local of line 76)
isThumbDownLocal(lm) == lm[4].y > lm[3].y

\* getDistance(thumbTip, indexTip) < 0.08
pinchClose(lm) ==
    getDistanceSq(lm[4], lm[8]) < PinchDistanceLimit * PinchDistanceLimit

\* rule 1 with the ring and pinky tests dropped
MiddleFingerRuleIndexOnly(lm) == middleOpen(lm) /\ ~indexOpen(lm)

\* rule 1, line 80
MiddleFingerRule(lm) ==
    middleOpen(lm) /\ ~indexOpen(lm) /\ ~ringOpen(lm) /\ ~pinkyOpen(lm)

\* rule 2, line 87
OkRule(lm) ==
    pinchClose(lm) /\ middleOpen(lm) /\ ringOpen(lm) /\ pinkyOpen(lm)

\* rule 3, lines 93-96
GunRule(lm) ==
    /\ thumbOpen(lm) /\ indexOpen(lm)
    /\ ~middleOpen(lm) /\ ~ringOpen(lm) /\ ~pinkyOpen(lm)
    /\ isThumbUp(lm)

\* rule 4, lines 100-104
ThumbsDownRule(lm) ==
    /\ ~indexOpen(lm) /\ ~middleOpen(lm) /\ ~ringOpen(lm) /\ ~pinkyOpen(lm)
    /\ thumbOpen(lm) /\ isThumbDownLocal(lm)

\* rule 1 made to depend on the thumb
detectGestureThumbGated(lm) ==
    IF MiddleFingerRule(lm) /\ ~thumbOpen(lm) THEN "MIDDLE_FINGER"
    ELSE IF OkRule(lm) THEN "OK"
    ELSE IF GunRule(lm) THEN "GUN"
    ELSE IF ThumbsDownRule(lm) THEN "THUMBS_DOWN"
    ELSE NoGesture

detectGesture(lm) ==
    IF MiddleFingerRule(lm) THEN "MIDDLE_FINGER"
    ELSE IF OkRule(lm) THEN "OK"
    ELSE IF GunRule(lm) THEN "GUN"
    ELSE IF ThumbsDownRule(lm) THEN "THUMBS_DOWN"
    ELSE NoGesture

----------------------------------------------------------------------------
(* getHandBoundingBox.  The box is kept in thousandths of a pixel:         *)
(* x is minX * width with minX in thousandths.                             *)

Min2(a, b) == IF a < b THEN a ELSE b
Max2(a, b) == IF a > b THEN a ELSE b

\* the forEach of lines 118-123, from landmark i on
RECURSIVE scanLandmarks(_, _, _)
scanLandmarks(lm, i, acc) ==
    IF i > 20 THEN acc
    ELSE scanLandmarks(lm, i + 1,
            [minX |-> IF lm[i].x < acc.minX THEN lm[i].x ELSE acc.minX,
             maxX |-> IF lm[i].x > acc.maxX THEN lm[i].x ELSE acc.maxX,
             minY |-> IF lm[i].y < acc.minY THEN lm[i].y ELSE acc.minY,
             maxY |-> IF lm[i].y > acc.maxY THEN lm[i].y ELSE acc.maxY])

ZeroBox == [x |-> 0, y |-> 0, w |-> 0, h |-> 0]

\* the padding applied without Math.max / Math.min
getHandBoundingBoxUnclipped(lm, w, h) ==
    LET e == scanLandmarks(lm, 0,
                 [minX |-> One, minY |-> One, maxX |-> 0, maxY |-> 0])
        minX == e.minX - padding
        minY == e.minY - padding
        maxX == e.maxX + padding
        maxY == e.maxY + padding
    IN  [x |-> minX * w, y |-> minY * h,
         w |-> (maxX - minX) * w, h |-> (maxY - minY) * h]

getHandBoundingBox(lm, w, h) ==
    LET e == scanLandmarks(lm, 0,
                 [minX |-> One, minY |-> One, maxX |-> 0, maxY |-> 0])
        minX == Max2(0, e.minX - padding)
        minY == Max2(0, e.minY - padding)
        maxX == Min2(One, e.maxX + padding)
        maxY == Min2(One, e.maxY + padding)
    IN  [x |-> minX * w, y |-> minY * h,
         w |-> (maxX - minX) * w, h |-> (maxY - minY) * h]

----------------------------------------------------------------------------
(* Landmark sets handed to the helpers.  A hand pose places the knuckles   *)
(* and middle joints of an upright hand and draws each fingertip at a      *)
(* distance above its knuckle: 30 is curled, 80 is exactly 1.6 times the   *)
(* PIP-MCP distance of 50, 81 is just above it, 120 is stretched.  The     *)
(* thumb tip is drawn from positions on both sides of the 0.15 and 0.08    *)
(* thresholds, and the thumb IP joint sits above, level with or below it.  *)

TipDistances == {30, 80, 81, 120}

ThumbTips == {Pt(450, 445), Pt(450, 500), Pt(300, 600), Pt(290, 600), Pt(450, 400)}

ThumbIPOffsets == {-10, 0, 10}

HandPose(ti, tm, tr, tp, tt, d) ==
    [i \in 0..20 |->
        CASE i = 0  -> Pt(500, 800)
          [] i = 1  -> Pt(450, 750)
          [] i = 2  -> Pt(400, 700)
          [] i = 3  -> Pt(380, tt.y + d)
          [] i = 4  -> tt
          [] i = 5  -> Pt(450, 600)
          [] i = 6  -> Pt(450, 550)
          [] i = 7  -> Pt(450, 550)
          [] i = 8  -> Pt(450, 600 - ti)
          [] i = 9  -> Pt(500, 590)
          [] i = 10 -> Pt(500, 540)
          [] i = 11 -> Pt(500, 540)
          [] i = 12 -> Pt(500, 590 - tm)
          [] i = 13 -> Pt(550, 600)
          [] i = 14 -> Pt(550, 550)
          [] i = 15 -> Pt(550, 550)
          [] i = 16 -> Pt(550, 600 - tr)
          [] i = 17 -> Pt(600, 620)
          [] i = 18 -> Pt(600, 570)
          [] i = 19 -> Pt(600, 570)
          [] OTHER  -> Pt(600, 620 - tp)]

HandPoses ==
    { HandPose(ti, tm, tr, tp, tt, d) :
        ti \in TipDistances, tm \in TipDistances, tr \in TipDistances,
        tp \in TipDistances, tt \in ThumbTips, d \in ThumbIPOffsets }

\* Landmark sets whose extreme points lie on a chosen rectangle, some of
\* them within the padding of the frame border.
SpanX == {<<200, 600>>, <<0, 30>>, <<970, 1000>>, <<0, 1000>>, <<500, 500>>, <<40, 960>>}

SpanY == {<<300, 500>>, <<0, 1000>>, <<20, 40>>, <<960, 990>>, <<50, 950>>}

SpanPose(sx, sy) ==
    LET mx == (sx[1] + sx[2]) \div 2
        my == (sy[1] + sy[2]) \div 2
    IN  [i \in 0..20 |->
            CASE i = 7  -> Pt(sx[1], my)
              [] i = 11 -> Pt(sx[2], my)
              [] i = 12 -> Pt(mx, sy[1])
              [] i = 0  -> Pt(mx, sy[2])
              [] OTHER  -> Pt(mx, my)]

SpanPoses == { SpanPose(sx, sy) : sx \in SpanX, sy \in SpanY }

LandmarkSets == HandPoses \cup SpanPoses

\* canvas sizes: the default canvas, and two camera resolutions
FrameSizes == {<<300, 150>>, <<640, 480>>, <<1280, 720>>}

----------------------------------------------------------------------------
(* SpecClassify: the helpers applied to every landmark set and frame size. *)

EffectIdle ==
    /\ initPc = "start"
    /\ isMounted = TRUE
    /\ hands = "null"
    /\ stream = "none"
    /\ srcObject = FALSE
    /\ listening = FALSE
    /\ error = "null"
    /\ loading = TRUE
    /\ detectedGesture = NoGesture
    /\ blurred = FALSE
    /\ blurBox = ZeroBox
    /\ canvasSize = <<300, 150>>
    /\ rafScheduled = FALSE
    /\ sendsInFlight = 0
    /\ callbacksDue = 0
    /\ lastResults = [hasHand |-> FALSE, lm |-> SpanPose(<<500, 500>>, <<500, 500>>)]
    /\ prevResults = [hasHand |-> FALSE, lm |-> SpanPose(<<500, 500>>, <<500, 500>>)]
    /\ lastEvent = "render"

InitClassify ==
    /\ landmarks \in LandmarkSets
    /\ \E size \in FrameSizes : width = size[1] /\ height = size[2]
    /\ gesture = NoGesture
    /\ box = ZeroBox
    /\ done = {}
    /\ EffectIdle

CallDetectGesture ==
    /\ "gesture" \notin done
    /\ gesture' = detectGesture(landmarks)
    /\ done' = done \cup {"gesture"}
    /\ UNCHANGED <<landmarks, width, height, box>>
    /\ UNCHANGED effectVars

CallGetHandBoundingBox ==
    /\ "box" \notin done
    /\ box' = getHandBoundingBox(landmarks, width, height)
    /\ done' = done \cup {"box"}
    /\ UNCHANGED <<landmarks, width, height, gesture>>
    /\ UNCHANGED effectVars

NextClassify == CallDetectGesture \/ CallGetHandBoundingBox

SpecClassify == InitClassify /\ [][NextClassify]_vars

----------------------------------------------------------------------------
(* The conditions of the classification rules as the documentation states  *)
(* them, written on the landmarks directly.                                *)

SqDist(p, q) == (p.x - q.x) * (p.x - q.x) + (p.y - q.y) * (p.y - q.y)

\* distance(tip, mcp) > 1.6 * distance(pip, mcp)
RatioOpen(tip, pip, mcp) == 25 * SqDist(tip, mcp) > 64 * SqDist(pip, mcp)

IndexIsOpen  == RatioOpen(landmarks[8],  landmarks[6],  landmarks[5])
MiddleIsOpen == RatioOpen(landmarks[12], landmarks[10], landmarks[9])
RingIsOpen   == RatioOpen(landmarks[16], landmarks[14], landmarks[13])
PinkyIsOpen  == RatioOpen(landmarks[20], landmarks[18], landmarks[17])

\* distance(thumb TIP, index MCP) > 0.15
ThumbIsOpen == SqDist(landmarks[4], landmarks[5]) > 22500

\* distance(thumb TIP, index TIP) < 0.08
IsPinching == SqDist(landmarks[4], landmarks[8]) < 6400

Classified == "gesture" \in done

Boxed == "box" \in done

\* C4: whenever the middle finger is open by the 1.6 ratio rule and index,
\* ring and pinky are not, detectGesture returns MIDDLE_FINGER, wherever the
\* thumb landmarks are.
C4_MiddleFingerWhateverThumb ==
    (Classified /\ MiddleIsOpen /\ ~IndexIsOpen /\ ~RingIsOpen /\ ~PinkyIsOpen)
        => gesture = "MIDDLE_FINGER"

\* a middle-finger pose whose thumb is open, up and pinching the index tip
C4_Witness ==
    /\ Classified /\ MiddleIsOpen /\ ~IndexIsOpen /\ ~RingIsOpen /\ ~PinkyIsOpen
    /\ ThumbIsOpen /\ IsPinching /\ landmarks[4].y < landmarks[3].y
    /\ gesture = "MIDDLE_FINGER"

\* C5 as stated: a pinch with index, ring and pinky open always returns OK.
C5_PinchIndexRingPinkyIsOk ==
    (Classified /\ IsPinching /\ IndexIsOpen /\ RingIsOpen /\ PinkyIsOpen)
        => gesture = "OK"

\* C5 amended: with a pinch and index, ring and pinky open, detectGesture
\* returns OK exactly when the middle finger is open too (ratio strictly
\* above 1.6), and no gesture when it is not (exactly 1.6 is not open).
C5_PinchOkIffMiddleOpen ==
    (Classified /\ IsPinching /\ IndexIsOpen /\ RingIsOpen /\ PinkyIsOpen)
        => gesture = (IF MiddleIsOpen THEN "OK" ELSE NoGesture)

\* a pinch whose middle finger ratio is 81/50, just above 1.6
C5_Witness ==
    /\ Classified /\ IsPinching /\ IndexIsOpen /\ RingIsOpen /\ PinkyIsOpen
    /\ SqDist(landmarks[12], landmarks[9]) = 81 * 81
    /\ SqDist(landmarks[10], landmarks[9]) = 50 * 50
    /\ gesture = "OK"

\* C6: with index, middle, ring and pinky closed and the thumb open,
\* detectGesture returns THUMBS_DOWN exactly when thumb TIP y > thumb IP y,
\* and no gesture otherwise (never GUN).
C6_ThumbsDownIffTipBelowIP ==
    (Classified /\ ~IndexIsOpen /\ ~MiddleIsOpen /\ ~RingIsOpen /\ ~PinkyIsOpen
        /\ ThumbIsOpen)
        => gesture = (IF landmarks[4].y > landmarks[3].y
                      THEN "THUMBS_DOWN" ELSE NoGesture)

\* a fist with the thumb open and its tip level with the IP joint
C6_Witness ==
    /\ Classified /\ ~IndexIsOpen /\ ~MiddleIsOpen /\ ~RingIsOpen /\ ~PinkyIsOpen
    /\ ThumbIsOpen /\ landmarks[4].y = landmarks[3].y
    /\ gesture = NoGesture

\* the enclosing rectangle of the landmarks, from its definition
LeastX    == CHOOSE v \in {landmarks[i].x : i \in 0..20} :
                 \A i \in 0..20 : v <= landmarks[i].x
GreatestX == CHOOSE v \in {landmarks[i].x : i \in 0..20} :
                 \A i \in 0..20 : v >= landmarks[i].x
LeastY    == CHOOSE v \in {landmarks[i].y : i \in 0..20} :
                 \A i \in 0..20 : v <= landmarks[i].y
GreatestY == CHOOSE v \in {landmarks[i].y : i \in 0..20} :
                 \A i \in 0..20 : v >= landmarks[i].y

ClipLow(v)  == IF v < 0 THEN 0 ELSE v
ClipHigh(v) == IF v > 1000 THEN 1000 ELSE v

\* C7: getHandBoundingBox returns the enclosing rectangle of the landmarks
\* grown by 0.05 on each side, clipped to the unit square and scaled by the
\* frame size, so the box lies inside the frame.
C7_BoxIsPaddedClippedHull ==
    Boxed =>
        /\ box.x = ClipLow(LeastX - 50) * width
        /\ box.y = ClipLow(LeastY - 50) * height
        /\ box.x + box.w = ClipHigh(GreatestX + 50) * width
        /\ box.y + box.h = ClipHigh(GreatestY + 50) * height
        /\ 0 <= box.x /\ box.x + box.w <= 1000 * width /\ box.w >= 0
        /\ 0 <= box.y /\ box.y + box.h <= 1000 * height /\ box.h >= 0

\* landmarks spanning x in [0.2,0.6], y in [0.3,0.5] on a 640x480 frame
C7_Witness ==
    /\ Boxed /\ width = 640 /\ height = 480
    /\ LeastX = 200 /\ GreatestX = 600 /\ LeastY = 300 /\ GreatestY = 500
    /\ box.x = 150 * 640 /\ box.x + box.w = 650 * 640
    /\ box.y = 250 * 480 /\ box.y + box.h = 550 * 480

\* the rules of detectGesture evaluated in the opposite order
detectGestureReversed(lm) ==
    IF ThumbsDownRule(lm) THEN "THUMBS_DOWN"
    ELSE IF GunRule(lm) THEN "GUN"
    ELSE IF OkRule(lm) THEN "OK"
    ELSE IF MiddleFingerRule(lm) THEN "MIDDLE_FINGER"
    ELSE NoGesture

RulesHolding(lm) ==
    {r \in {"MIDDLE_FINGER", "OK", "GUN", "THUMBS_DOWN"} :
        \/ r = "MIDDLE_FINGER" /\ MiddleFingerRule(lm)
        \/ r = "OK" /\ OkRule(lm)
        \/ r = "GUN" /\ GunRule(lm)
        \/ r = "THUMBS_DOWN" /\ ThumbsDownRule(lm)}

\* C9: at most one of the four rule conditions holds, detectGesture returns
\* a gesture exactly when that gesture's condition holds, and evaluating the
\* rules in the opposite order gives the same result.
C9_RulesMutuallyExclusive ==
    Classified =>
        /\ Cardinality(RulesHolding(landmarks)) <= 1
        /\ \A r \in {"MIDDLE_FINGER", "OK", "GUN", "THUMBS_DOWN"} :
               gesture = r <=> r \in RulesHolding(landmarks)
        /\ gesture = detectGestureReversed(landmarks)

\* a GUN pose whose thumb tip also pinches the index tip
C9_Witness ==
    /\ Classified /\ gesture = "GUN" /\ IsPinching
    /\ RulesHolding(landmarks) = {"GUN"}

----------------------------------------------------------------------------
(* Spec: the component's effects.  Each action is one run of the event     *)
(* loop: a handler, or an async function from one await to the next.       *)

\* cap on concurrently pending hands.send calls kept in the state
MaxInFlight == 2

\* names an exception thrown during init may carry
ErrorNames == {"NotAllowedError", "PermissionDeniedError", "NotFoundError", "AbortError"}

\* videoWidth x videoHeight the camera may deliver
VideoSizes == {<<640, 480>>, <<1280, 720>>}

\* results the Landmark Provider may pass to the onResults callback
FramePoses ==
    { HandPose(30, 120, 30, 30, Pt(450, 500), -10),    \* middle finger
      HandPose(120, 120, 120, 120, Pt(450, 445), 10),  \* pinch, others open
      HandPose(120, 30, 30, 30, Pt(290, 600), 10),     \* index and thumb up
      HandPose(30, 30, 30, 30, Pt(290, 600), -10),     \* fist, thumb down
      HandPose(30, 30, 30, 30, Pt(290, 600), 10),      \* fist, thumb up
      HandPose(120, 120, 120, 120, Pt(290, 600), 0),   \* open hand
      SpanPose(<<0, 30>>, <<960, 990>>) }              \* at the frame corner

NoHand == [hasHand |-> FALSE, lm |-> SpanPose(<<500, 500>>, <<500, 500>>)]

FrameResults == {NoHand} \cup {[hasHand |-> TRUE, lm |-> p] : p \in FramePoses}

Init ==
    /\ landmarks = SpanPose(<<500, 500>>, <<500, 500>>)
    /\ width = 300
    /\ height = 150
    /\ gesture = NoGesture
    /\ box = ZeroBox
    /\ done = {}
    /\ EffectIdle

\* the catch block of init, lines 229-237
catchBlock(name) ==
    /\ error' = (IF name = "NotAllowedError" \/ name = "PermissionDeniedError"
                 THEN "denied" ELSE "other")
    /\ loading' = FALSE

\* handleResize, lines 257-262: assigning canvas.width resets the bitmap
handleResize(size) ==
    /\ canvasSize' = size
    /\ blurred' = FALSE
    /\ blurBox' = ZeroBox

\* processFrame that schedules the next frame without awaiting hands.send
processFrameNoAwait(ready) ==
    IF ~isMounted
    THEN /\ rafScheduled' = FALSE
         /\ UNCHANGED <<sendsInFlight, callbacksDue>>
    ELSE IF hands # "null" /\ ready
    THEN /\ sendsInFlight < MaxInFlight
         /\ sendsInFlight' = sendsInFlight + 1
         /\ callbacksDue' = callbacksDue + 1
         /\ rafScheduled' = TRUE
    ELSE /\ rafScheduled' = TRUE
         /\ UNCHANGED <<sendsInFlight, callbacksDue>>

\* processFrame without the isMounted test
processFrameNoMountCheck(ready) ==
    IF hands # "null" /\ ready
    THEN /\ sendsInFlight < MaxInFlight
         /\ sendsInFlight' = sendsInFlight + 1
         /\ callbacksDue' = callbacksDue + 1
         /\ rafScheduled' = FALSE
    ELSE /\ rafScheduled' = TRUE
         /\ UNCHANGED <<sendsInFlight, callbacksDue>>

\* processFrame from its entry to its await or return, lines 217-225:
\* ready stands for videoElement.readyState >= 2
processFrame(ready) ==
    IF ~isMounted
    THEN /\ rafScheduled' = FALSE
         /\ UNCHANGED <<sendsInFlight, callbacksDue>>
    ELSE IF hands # "null" /\ ready
    THEN /\ sendsInFlight < MaxInFlight
         /\ sendsInFlight' = sendsInFlight + 1
         /\ callbacksDue' = callbacksDue + 1
         /\ rafScheduled' = FALSE
    ELSE /\ rafScheduled' = TRUE
         /\ UNCHANGED <<sendsInFlight, callbacksDue>>

\* the effects run after the first render: init() up to its first await
\* (lines 145-204) and the registration of handleResize (lines 264-268)
RunEffects ==
    /\ initPc = "start"
    /\ listening' = TRUE
    /\ lastEvent' = "runEffects"
    /\ \E outcome \in {"noContext", "constructorThrows", "setupThrows", "awaiting"} :
         \/ /\ outcome = "noContext"
            /\ error' = "canvas"
            /\ initPc' = "done"
            /\ UNCHANGED <<hands, loading>>
         \/ /\ outcome = "constructorThrows"
            /\ catchBlock("TypeError")
            /\ initPc' = "done"
            /\ UNCHANGED hands
         \/ /\ outcome = "setupThrows"
            /\ hands' = "open"
            /\ catchBlock("TypeError")
            /\ initPc' = "done"
         \/ /\ outcome = "awaiting"
            /\ hands' = "open"
            /\ initPc' = "awaitGetUserMedia"
            /\ UNCHANGED <<error, loading>>
    /\ UNCHANGED <<isMounted, stream, srcObject, detectedGesture, blurred,
                   blurBox, canvasSize, rafScheduled, sendsInFlight,
                   callbacksDue, lastResults, prevResults>>
    /\ UNCHANGED classifyVars

\* getUserMedia settles and init runs on to the next await, lines 204-212
GetUserMediaSettles ==
    /\ initPc = "awaitGetUserMedia"
    /\ lastEvent' = "getUserMedia"
    /\ \E outcome \in {"granted"} \cup ErrorNames :
         IF outcome = "granted"
         THEN /\ stream' = "live"
              /\ srcObject' = TRUE
              /\ initPc' = "awaitMetadata"
              /\ UNCHANGED <<error, loading>>
         ELSE /\ catchBlock(outcome)
              /\ initPc' = "done"
              /\ UNCHANGED <<stream, srcObject>>
    /\ UNCHANGED <<isMounted, hands, listening, detectedGesture, blurred,
                   blurBox, canvasSize, rafScheduled, sendsInFlight,
                   callbacksDue, lastResults, prevResults>>
    /\ UNCHANGED classifyVars

\* the loadedmetadata event: handleResize if still registered, and the
\* onloadedmetadata handler resolves the promise; init goes on to play()
LoadedMetadata ==
    /\ initPc = "awaitMetadata"
    /\ lastEvent' = "loadedmetadata"
    /\ IF listening
       THEN \E size \in VideoSizes : handleResize(size)
       ELSE UNCHANGED <<canvasSize, blurred, blurBox>>
    /\ initPc' = "awaitPlay"
    /\ UNCHANGED <<isMounted, hands, stream, srcObject, listening, error,
                   loading, detectedGesture, rafScheduled, sendsInFlight,
                   callbacksDue, lastResults, prevResults>>
    /\ UNCHANGED classifyVars

\* play() settles; on success init calls processFrame(), lines 214-227
PlaySettles ==
    /\ initPc = "awaitPlay"
    /\ lastEvent' = "play"
    /\ initPc' = "done"
    /\ \E outcome \in {"playing"} \cup ErrorNames :
         IF outcome = "playing"
         THEN /\ \E ready \in BOOLEAN : processFrame(ready)
              /\ UNCHANGED <<error, loading>>
         ELSE /\ catchBlock(outcome)
              /\ UNCHANGED <<rafScheduled, sendsInFlight, callbacksDue>>
    /\ UNCHANGED <<isMounted, hands, stream, srcObject, listening,
                   detectedGesture, blurred, blurBox, canvasSize,
                   lastResults, prevResults>>
    /\ UNCHANGED classifyVars

\* the animation-frame callback runs processFrame
AnimationFrame ==
    /\ rafScheduled
    /\ lastEvent' = "animationFrame"
    /\ \E ready \in BOOLEAN : processFrame(ready)
    /\ UNCHANGED <<initPc, isMounted, hands, stream, srcObject, listening,
                   error, loading, detectedGesture, blurred, blurBox,
                   canvasSize, lastResults, prevResults>>
    /\ UNCHANGED classifyVars

\* the onResults callback with the clearRect call left out
onResultsNoClear(results) ==
    IF ~isMounted
    THEN UNCHANGED <<blurred, blurBox, detectedGesture, loading,
                     lastResults, prevResults>>
    ELSE LET currentGesture == IF results.hasHand
                               THEN detectGesture(results.lm) ELSE NoGesture
         IN  /\ IF results.hasHand /\ currentGesture # NoGesture
                THEN /\ blurred' = TRUE
                     /\ blurBox' = getHandBoundingBox(results.lm,
                                       canvasSize[1], canvasSize[2])
                ELSE UNCHANGED <<blurred, blurBox>>
             /\ detectedGesture' = currentGesture
             /\ loading' = FALSE
             /\ lastResults' = results
             /\ prevResults' = lastResults

\* the callback given to hands.onResults, lines 172-201
onResults(results) ==
    IF ~isMounted
    THEN UNCHANGED <<blurred, blurBox, detectedGesture, loading,
                     lastResults, prevResults>>
    ELSE LET currentGesture == IF results.hasHand
                               THEN detectGesture(results.lm) ELSE NoGesture
         IN  /\ IF results.hasHand /\ currentGesture # NoGesture
                THEN /\ blurred' = TRUE
                     /\ blurBox' = getHandBoundingBox(results.lm,
                                       canvasSize[1], canvasSize[2])
                ELSE /\ blurred' = FALSE
                     /\ blurBox' = ZeroBox
             /\ detectedGesture' = currentGesture
             /\ loading' = FALSE
             /\ lastResults' = results
             /\ prevResults' = lastResults

\* the Landmark Provider delivers the results of a pending send
ResultsDelivered ==
    /\ callbacksDue > 0
    /\ callbacksDue' = callbacksDue - 1
    /\ lastEvent' = (IF isMounted THEN "onResults" ELSE "onResultsIgnored")
    /\ \E results \in FrameResults : onResults(results)
    /\ UNCHANGED <<initPc, isMounted, hands, stream, srcObject, listening,
                   error, canvasSize, rafScheduled, sendsInFlight>>
    /\ UNCHANGED classifyVars

\* a send whose callback has run resolves; processFrame resumes after its
\* await and requests the next animation frame, line 224
SendResolves ==
    /\ sendsInFlight > callbacksDue
    /\ sendsInFlight' = sendsInFlight - 1
    /\ rafScheduled' = TRUE
    /\ lastEvent' = "sendResolves"
    /\ UNCHANGED <<initPc, isMounted, hands, stream, srcObject, listening,
                   error, loading, detectedGesture, blurred, blurBox,
                   canvasSize, callbacksDue, lastResults, prevResults>>
    /\ UNCHANGED classifyVars

\* a pending send rejects: the await in processFrame throws, nothing
\* catches it and the loop is not rescheduled
SendRejects ==
    /\ sendsInFlight > 0
    /\ sendsInFlight' = sendsInFlight - 1
    /\ callbacksDue' = (IF callbacksDue > 0 THEN callbacksDue - 1 ELSE 0)
    /\ lastEvent' = "sendRejects"
    /\ UNCHANGED <<initPc, isMounted, hands, stream, srcObject, listening,
                   error, loading, detectedGesture, blurred, blurBox,
                   canvasSize, rafScheduled, lastResults, prevResults>>
    /\ UNCHANGED classifyVars

\* the video's resize event while handleResize is registered
VideoResize ==
    /\ listening
    /\ stream = "live"
    /\ initPc \in {"awaitPlay", "done"}
    /\ \E size \in VideoSizes : handleResize(size)
    /\ lastEvent' = "resize"
    /\ UNCHANGED <<initPc, isMounted, hands, stream, srcObject, listening,
                   error, loading, detectedGesture, rafScheduled,
                   sendsInFlight, callbacksDue, lastResults, prevResults>>
    /\ UNCHANGED classifyVars

\* the component unmounts: the cleanups of both effects, lines 242-252 and
\* 270-275.  The video element is taken to be still referenced by videoRef.
Unmount ==
    /\ initPc # "start"
    /\ isMounted
    /\ isMounted' = FALSE
    /\ rafScheduled' = FALSE
    /\ hands' = (IF hands = "open" THEN "closed" ELSE hands)
    /\ stream' = (IF srcObject /\ stream = "live" THEN "stopped" ELSE stream)
    /\ listening' = FALSE
    /\ lastEvent' = "unmount"
    /\ UNCHANGED <<initPc, srcObject, error, loading, detectedGesture,
                   blurred, blurBox, canvasSize, sendsInFlight, callbacksDue,
                   lastResults, prevResults>>
    /\ UNCHANGED classifyVars

Next ==
    \/ RunEffects
    \/ GetUserMediaSettles
    \/ LoadedMetadata
    \/ PlaySettles
    \/ AnimationFrame
    \/ ResultsDelivered
    \/ SendResolves
    \/ SendRejects
    \/ VideoResize
    \/ Unmount

Spec == Init /\ [][Next]_vars

----------------------------------------------------------------------------
(* Properties of the effect.                                               *)

\* C1: at most one frame is outstanding at the Landmark Provider:
\* processFrame never calls hands.send while an earlier send is pending.
C1_OneFrameOutstanding == sendsInFlight <= 1

\* a frame submitted from an animation-frame callback, after an earlier
\* send completed
C1_Witness ==
    /\ lastEvent = "animationFrame" /\ sendsInFlight = 1
    /\ lastResults.hasHand

\* C2: once the component is torn down and init and the frame loop have
\* nothing left to run, a stream that getUserMedia granted has been stopped.
C2_GrantedStreamReleased ==
    (~isMounted /\ initPc = "done" /\ sendsInFlight = 0 /\ ~rafScheduled
        /\ stream # "none")
        => stream = "stopped"

\* C3: whenever the error message is set, loading has been set to false.
C3_ErrorHaltsLoading == error # "null" => loading = FALSE

\* the canvas and the gesture label that a processed callback must leave
ExpectedGesture(results) ==
    IF results.hasHand THEN detectGesture(results.lm) ELSE NoGesture

\* C8: right after every onResults callback processed while mounted, the
\* canvas is blurred over the hand's bounding box iff that callback's frame
\* held a hand that detectGesture classified, and detectedGesture is that
\* frame's classification, whatever earlier frames held.
C8_CensoringIsPerFrame ==
    [][lastEvent' = "onResults" =>
        /\ blurred' = (ExpectedGesture(lastResults') # NoGesture)
        /\ blurred' => blurBox' = getHandBoundingBox(lastResults'.lm,
                                       canvasSize'[1], canvasSize'[2])
        /\ detectedGesture' = ExpectedGesture(lastResults')]_vars

\* a callback whose frame holds a hand and no gesture, processed right
\* after a callback whose frame was censored
C8_Witness ==
    /\ lastEvent = "onResults" /\ lastResults.hasHand
    /\ ExpectedGesture(prevResults) # NoGesture
    /\ ~blurred /\ detectedGesture = NoGesture

\* C10: once the cleanup has run (isMounted false, hands closed) no frame
\* is submitted: no step increases the number of sends.
C10_NoSendAfterClose ==
    [][(~isMounted \/ hands = "closed") => sendsInFlight' <= sendsInFlight]_vars

\* after a teardown during a pending send, the resumed loop fired an
\* animation frame and submitted nothing
C10_Witness ==
    /\ hands = "closed" /\ lastEvent = "animationFrame"
    /\ sendsInFlight = 0 /\ ~rafScheduled

====
